---------------------------- MODULE Spec2Model ----------------------------
(***************************************************************************)
(* Model of the first-err crate (src/src/lib.rs): the FirstErrIter adapter *)
(* (a three-state machine over a source iterator of Result items) and the  *)
(* driver first_err_or_else with its wrappers first_err_or_try and         *)
(* first_err_or.                                                           *)
(*                                                                         *)
(* One behaviour is one driver call: the caller holds a source `src` and a *)
(* closure f; the driver constructs the adapter, runs f (which calls the   *)
(* adapter's next() `budget` times and sums what it is given), matches on  *)
(* the adapter's state, drains the source when the adapter is still        *)
(* Active, and returns.                                                    *)
(*                                                                         *)
(* SpecNested models nested calls over two- and three-layer items, and     *)
(* SpecNone the Option variant (FirstNoneIter, first_none_or_else and its  *)
(* wrappers).                                                              *)
(* SpecLive is Spec with the fairness of sequential code, and SpecRepeat    *)
(* models successive calls on one source given by mutable reference.       *)
(***************************************************************************)
EXTENDS Integers, Sequences, FiniteSets

\* ------------------------------------------------------------------ bounds
MaxLen == 3
MaxCalls == 5

\* ------------------------------------------------------- values and items
\* Result::Ok / Result::Err, Option::Some / Option::None.
Ok(v) == [tag |-> "Ok", val |-> v]
Err(e) == [tag |-> "Err", val |-> e]
Some(v) == [tag |-> "Some", val |-> v]
None == [tag |-> "None", val |-> 0]

\* A place of the source where its next() answers None.  A source that has
\* items after such a place is a non-fused iterator.
EndSignal == [tag |-> "End", val |-> 0]

OkVals == {1, 2}
ErrVals == {1, 2}
\* the Err values the closure of first_err_or_try returns in the tests
FErrs == {42}
\* the `value` arguments of first_err_or
OrValues == {0, 7}

SrcItems == {Ok(v) : v \in OkVals} \cup {Err(e) : e \in ErrVals} \cup {EndSignal}

RECURSIVE SeqsUpTo(_, _)
SeqsUpTo(S, n) ==
    IF n = 0 THEN {<<>>}
    ELSE LET shorter == SeqsUpTo(S, n - 1)
         IN shorter \cup {Append(s, x) : s \in {t \in shorter : Len(t) = n - 1}, x \in S}

Sources == SeqsUpTo(SrcItems, MaxLen)

Methods == {"first_err_or_else", "first_err_or_try", "first_err_or"}

\* ------------------------------------------------------------- the state
VARIABLES
    src,      \* the source iterator's items (an input of the call)
    method,   \* which method of the FirstErr trait is called
    budget,   \* how many times the closure f calls next() on the adapter
    fres,     \* first_err_or_try: whether f returns Ok(..) or which Err(e)
    value,    \* first_err_or: the `value` argument
    pc,       \* position in the driver
    pos,      \* the source iterator's cursor: items of src already produced
    state,    \* FirstErrIter::state
    rets,     \* what the adapter's next() returned to f, call by call
    trace,    \* side effects: Outer(item) by the source, Inner(v) by f
    pulls,    \* number of calls of the source's next()
    output,   \* what f returned
    result,   \* what the driver returns
    upper,    \* nested calls: the states of the adapters stacked on the first
    lvl,      \* nested calls: the layer whose driver is running
    calls     \* repeated calls on one source: the calls that have returned

vars == <<src, method, budget, fres, value, pc, pos, state, rets, trace,
          pulls, output, result, upper, lvl, calls>>

\* enum State { Active(I), FoundFirstErr(E), Exhausted }; the iterator that
\* Active owns is (src, pos).
Active == [tag |-> "Active", val |-> 0]
FoundFirstErr(e) == [tag |-> "FoundFirstErr", val |-> e]
Exhausted == [tag |-> "Exhausted", val |-> 0]

NoValue == [tag |-> "unset", val |-> 0]

Outer(item) == [who |-> "Outer", item |-> item]
Inner(v) == [who |-> "Inner", item |-> v]


\* ------------------------------------------------------ the source's next()
\* The source iterator I: Iterator<Item = Result<T, E>>.  It answers Some(item)
\* and advances; at an end signal it answers None and advances past it (as the
\* tests' NonFusedIter does); past its last item it answers None and stays (as
\* array::IntoIter does).
inner_next(s, p) ==
    IF p < Len(s)
    THEN [item |-> IF s[p + 1].tag = "End" THEN None ELSE Some(s[p + 1]),
          pos |-> p + 1]
    ELSE [item |-> None, pos |-> p]

\* What an `inspect` closure on the source records for one answer of next():
\* an Outer event for Some(item), nothing for None.
Inspected(item) == IF item.tag = "Some" THEN <<Outer(item.val)>> ELSE <<>>

RECURSIVE InspectedAll(_)
InspectedAll(items) ==
    IF items = <<>> THEN <<>>
    ELSE Inspected(Head(items)) \o InspectedAll(Tail(items))

\* ------------------------------------------------- FirstErrIter::next()
\* Variants of next() with one slip each, used to show that the properties
\* below depend on the code.
\* (a) a pulled Err ends the iteration but is not latched in the state
FirstErrIter_next_no_err_latch(st, s, p) ==
    IF st.tag = "Active"
    THEN LET r == inner_next(s, p)
         IN CASE r.item.tag = "Some" /\ r.item.val.tag = "Ok" ->
                   [state |-> st, pos |-> r.pos,
                    ret |-> Some(r.item.val.val), pulled |-> <<r.item>>]
              [] r.item.tag = "Some" /\ r.item.val.tag = "Err" ->
                   [state |-> st, pos |-> r.pos,
                    ret |-> None, pulled |-> <<r.item>>]
              [] OTHER ->
                   [state |-> Exhausted, pos |-> r.pos,
                    ret |-> None, pulled |-> <<r.item>>]
    ELSE [state |-> st, pos |-> p, ret |-> None, pulled |-> <<>>]

\* (b) the source's None is passed on but not latched: the adapter relies on
\*     the source being fused
FirstErrIter_next_no_exhaust_latch(st, s, p) ==
    IF st.tag = "Active"
    THEN LET r == inner_next(s, p)
         IN CASE r.item.tag = "Some" /\ r.item.val.tag = "Ok" ->
                   [state |-> st, pos |-> r.pos,
                    ret |-> Some(r.item.val.val), pulled |-> <<r.item>>]
              [] r.item.tag = "Some" /\ r.item.val.tag = "Err" ->
                   [state |-> FoundFirstErr(r.item.val.val), pos |-> r.pos,
                    ret |-> None, pulled |-> <<r.item>>]
              [] OTHER ->
                   [state |-> st, pos |-> r.pos,
                    ret |-> None, pulled |-> <<r.item>>]
    ELSE [state |-> st, pos |-> p, ret |-> None, pulled |-> <<>>]

\* (c) an inert adapter still calls the source's next() and drops the answer
FirstErrIter_next_pulls_when_inert(st, s, p) ==
    LET r == inner_next(s, p)
    IN IF st.tag = "Active"
       THEN CASE r.item.tag = "Some" /\ r.item.val.tag = "Ok" ->
                   [state |-> st, pos |-> r.pos,
                    ret |-> Some(r.item.val.val), pulled |-> <<r.item>>]
              [] r.item.tag = "Some" /\ r.item.val.tag = "Err" ->
                   [state |-> FoundFirstErr(r.item.val.val), pos |-> r.pos,
                    ret |-> None, pulled |-> <<r.item>>]
              [] OTHER ->
                   [state |-> Exhausted, pos |-> r.pos,
                    ret |-> None, pulled |-> <<r.item>>]
       ELSE [state |-> st, pos |-> r.pos, ret |-> None, pulled |-> <<r.item>>]

\* (d) after an Ok item the adapter looks one item ahead for an Err
FirstErrIter_next_prefetch(st, s, p) ==
    IF st.tag = "Active"
    THEN LET r == inner_next(s, p)
             q == inner_next(s, r.pos)
         IN CASE r.item.tag = "Some" /\ r.item.val.tag = "Ok" ->
                   [state |-> IF q.item.tag = "Some" /\ q.item.val.tag = "Err"
                              THEN FoundFirstErr(q.item.val.val)
                              ELSE IF q.item.tag = "None" THEN Exhausted ELSE st,
                    pos |-> q.pos,
                    ret |-> Some(r.item.val.val), pulled |-> <<r.item, q.item>>]
              [] r.item.tag = "Some" /\ r.item.val.tag = "Err" ->
                   [state |-> FoundFirstErr(r.item.val.val), pos |-> r.pos,
                    ret |-> None, pulled |-> <<r.item>>]
              [] OTHER ->
                   [state |-> Exhausted, pos |-> r.pos,
                    ret |-> None, pulled |-> <<r.item>>]
    ELSE [state |-> st, pos |-> p, ret |-> None, pulled |-> <<>>]

\* (m) the state is not consulted: every call pulls and sets the state anew
FirstErrIter_next_not_latched(st, s, p) ==
    LET r == inner_next(s, p)
    IN CASE r.item.tag = "Some" /\ r.item.val.tag = "Ok" ->
              [state |-> Active, pos |-> r.pos,
               ret |-> Some(r.item.val.val), pulled |-> <<r.item>>]
         [] r.item.tag = "Some" /\ r.item.val.tag = "Err" ->
              [state |-> FoundFirstErr(r.item.val.val), pos |-> r.pos,
               ret |-> None, pulled |-> <<r.item>>]
         [] OTHER ->
              [state |-> Exhausted, pos |-> r.pos,
               ret |-> None, pulled |-> <<r.item>>]

\* Returns the adapter's new state, the source's new cursor, the value
\* returned to the caller, and the answers of the source's next() it caused.
FirstErrIter_next(st, s, p) ==
    IF st.tag = "Active"
    THEN LET r == inner_next(s, p)
         IN CASE r.item.tag = "Some" /\ r.item.val.tag = "Ok" ->
                   [state |-> st, pos |-> r.pos,
                    ret |-> Some(r.item.val.val), pulled |-> <<r.item>>]
              [] r.item.tag = "Some" /\ r.item.val.tag = "Err" ->
                   [state |-> FoundFirstErr(r.item.val.val), pos |-> r.pos,
                    ret |-> None, pulled |-> <<r.item>>]
              [] OTHER ->
                   [state |-> Exhausted, pos |-> r.pos,
                    ret |-> None, pulled |-> <<r.item>>]
    ELSE [state |-> st, pos |-> p, ret |-> None, pulled |-> <<>>]

\* ------------------------------------------------------------ the closure
\* The values f was given: the Some(v) among the adapter's answers.
RECURSIVE Yielded(_)
Yielded(rs) ==
    IF rs = <<>> THEN <<>>
    ELSE IF Head(rs).tag = "Some" THEN <<Head(rs).val>> \o Yielded(Tail(rs))
         ELSE Yielded(Tail(rs))

RECURSIVE Sum(_)
Sum(vs) == IF vs = <<>> THEN 0 ELSE Head(vs) + Sum(Tail(vs))

\* f's return value.  first_err_or_else: the sum of what f consumed (the
\* tests' `iter.sum()`, cut short when f stops early); first_err_or_try:
\* Ok(sum) or f's own Err; first_err_or: the closure |_| value.
FOutput(m, rs, fr, v) ==
    CASE m = "first_err_or_else" -> Sum(Yielded(rs))
      [] m = "first_err_or_try" ->
            IF fr.tag = "Ok" THEN Ok(Sum(Yielded(rs))) ELSE fr
      [] m = "first_err_or" -> v

\* -------------------------------------- FirstErrIter::first_err_or_else()
\* Variants of the driver's match and drain with one slip each.
\* (e) an adapter left Active is taken as "no error": no drain
match_state_no_drain(st, out) ==
    CASE st.tag = "Active" -> [pc |-> "ret", result |-> Ok(out)]
      [] st.tag = "Exhausted" -> [pc |-> "ret", result |-> Ok(out)]
      [] st.tag = "FoundFirstErr" -> [pc |-> "ret", result |-> Err(st.val)]

\* (f) the stored error is dropped and the rest of the source is scanned
match_state_always_drain(st, out) ==
    CASE st.tag = "Exhausted" -> [pc |-> "ret", result |-> Ok(out)]
      [] OTHER -> [pc |-> "drain", result |-> NoValue]

\* (g) the Exhausted arm returns what the FoundFirstErr arm should
match_state_exhausted_as_err(st, out) ==
    CASE st.tag = "Active" -> [pc |-> "drain", result |-> NoValue]
      [] OTHER -> [pc |-> "ret", result |-> Err(st.val)]

\* (h) `let _ = res;` in place of `let _ = res?;`
drain_step_ignore_err(s, p, out) ==
    LET r == inner_next(s, p)
    IN IF r.item.tag = "Some"
       THEN [pc |-> "drain", result |-> NoValue, pos |-> r.pos,
             pulled |-> <<r.item>>]
       ELSE [pc |-> "ret", result |-> Ok(out), pos |-> r.pos,
             pulled |-> <<r.item>>]

\* (n) an adapter left Active makes the driver run f again
match_state_runs_closure_again(st, out) ==
    CASE st.tag = "Active" -> [pc |-> "closure", result |-> NoValue]
      [] st.tag = "Exhausted" -> [pc |-> "ret", result |-> Ok(out)]
      [] st.tag = "FoundFirstErr" -> [pc |-> "ret", result |-> Err(st.val)]

\* (o) the FoundFirstErr arm returns f's output
match_state_found_keeps_output(st, out) ==
    CASE st.tag = "Active" -> [pc |-> "drain", result |-> NoValue]
      [] OTHER -> [pc |-> "ret", result |-> Ok(out)]

\* (p) the Exhausted arm scans the source like the Active arm
match_state_exhausted_drains(st, out) ==
    CASE st.tag = "FoundFirstErr" -> [pc |-> "ret", result |-> Err(st.val)]
      [] OTHER -> [pc |-> "drain", result |-> NoValue]

\* (q) after discarding an Ok item the drain hands the source back to f
drain_step_back_to_closure(s, p, out) ==
    LET r == inner_next(s, p)
    IN CASE r.item.tag = "Some" /\ r.item.val.tag = "Err" ->
              [pc |-> "ret", result |-> Err(r.item.val.val), pos |-> r.pos,
               pulled |-> <<r.item>>]
         [] r.item.tag = "Some" /\ r.item.val.tag = "Ok" ->
              [pc |-> "closure", result |-> NoValue, pos |-> r.pos,
               pulled |-> <<r.item>>]
         [] OTHER ->
              [pc |-> "ret", result |-> Ok(out), pos |-> r.pos,
               pulled |-> <<r.item>>]

\* `match me.state { ... }` after f returned: where the driver goes next and,
\* when it returns at once, with what.
match_state(st, out) ==
    CASE st.tag = "Active" -> [pc |-> "drain", result |-> NoValue]
      [] st.tag = "Exhausted" -> [pc |-> "ret", result |-> Ok(out)]
      [] st.tag = "FoundFirstErr" -> [pc |-> "ret", result |-> Err(st.val)]

\* One iteration of `for res in inner { let _ = res?; }` and the Ok(output)
\* that follows the loop.
drain_step(s, p, out) ==
    LET r == inner_next(s, p)
    IN CASE r.item.tag = "Some" /\ r.item.val.tag = "Err" ->
              [pc |-> "ret", result |-> Err(r.item.val.val), pos |-> r.pos,
               pulled |-> <<r.item>>]
         [] r.item.tag = "Some" /\ r.item.val.tag = "Ok" ->
              [pc |-> "drain", result |-> NoValue, pos |-> r.pos,
               pulled |-> <<r.item>>]
         [] OTHER ->
              [pc |-> "ret", result |-> Ok(out), pos |-> r.pos,
               pulled |-> <<r.item>>]

\* (i) the flattening keeps the outer Ok and drops the tag of f's result
and_then_flatten_drops_tag(res) ==
    IF res.tag = "Ok" THEN Ok(res.val.val) ELSE res

\* Result::and_then(|res| res) of first_err_or_try.
and_then_flatten(res) == IF res.tag = "Ok" THEN res.val ELSE res

\* What the trait method does with FirstErrIter::first_err_or_else's result.
trait_return(m, res) ==
    IF m = "first_err_or_try" THEN and_then_flatten(res) ELSE res

\* The whole call as a function of its inputs: f's n calls of next(), the
\* match, the drain, the trait method's return.
RECURSIVE closure_run(_, _, _, _)
closure_run(st, s, p, n) ==
    IF n = 0 THEN [state |-> st, pos |-> p, rets |-> <<>>]
    ELSE LET x == FirstErrIter_next(st, s, p)
             rest == closure_run(x.state, s, x.pos, n - 1)
         IN [state |-> rest.state, pos |-> rest.pos, rets |-> <<x.ret>> \o rest.rets]

RECURSIVE drain(_, _, _)
drain(s, p, out) ==
    LET d == drain_step(s, p, out)
    IN IF d.pc = "drain" THEN drain(s, d.pos, out) ELSE d.result

first_err_call(m, s, n, fr, v) ==
    LET c == closure_run(Active, s, 0, n)
        out == FOutput(m, c.rets, fr, v)
        mt == match_state(c.state, out)
    IN trait_return(m, IF mt.pc = "drain" THEN drain(s, c.pos, out) ELSE mt.result)

\* ------------------------------------- the patterns the crate replaces
\* benches/benchmark.rs, l1res::loop_approach:
\*   let mut sum = 0; for res in iter { sum += res?; } Ok(sum)
RECURSIVE loop_from(_, _, _)
loop_from(s, p, sum) ==
    LET r == inner_next(s, p)
    IN IF r.item.tag = "None" THEN Ok(sum)
       ELSE IF r.item.val.tag = "Err" THEN Err(r.item.val.val)
            ELSE loop_from(s, r.pos, sum + r.item.val.val)

loop_approach(s) == loop_from(s, 0, 0)

\* iter.collect::<Result<Vec<_>, _>>(): the Ok values up to the source's end,
\* or the first Err met on the way.
RECURSIVE collect_from(_, _, _)
collect_from(s, p, vec) ==
    LET r == inner_next(s, p)
    IN IF r.item.tag = "None" THEN Ok(vec)
       ELSE IF r.item.val.tag = "Err" THEN Err(r.item.val.val)
            ELSE collect_from(s, r.pos, Append(vec, r.item.val.val))

collect_result(s) == collect_from(s, 0, <<>>)

\* The closure that sums at most n items, run on the collected values:
\* iter.collect::<Result<Vec<T>, E>>().map(|vec| vec.into_iter().foo()).
collect_then(s, n) ==
    LET c == collect_result(s)
    IN IF c.tag = "Err" THEN c
       ELSE Ok(Sum(SubSeq(c.val, 1, IF n < Len(c.val) THEN n ELSE Len(c.val))))

\* benches/benchmark.rs, l1res::collect_approach: collect, `?`, then sum.
collect_approach(s) == collect_then(s, Len(s))

\* benches/benchmark.rs, l2res::loop_approach, the inner
\*   for outer_res in iter { let _ = outer_res?; }
RECURSIVE loop2_verify(_, _)
loop2_verify(s, p) ==
    LET r == inner_next(s, p)
    IN IF r.item.tag = "None" THEN Ok(0)
       ELSE IF r.item.val.tag = "Err" THEN Err(r.item.val.val)
            ELSE loop2_verify(s, r.pos)

\* l2res::loop_approach: while let Some(outer_res) = iter.next() { ... }
RECURSIVE loop2_from(_, _, _)
loop2_from(s, p, sum) ==
    LET r == inner_next(s, p)
    IN IF r.item.tag = "None" THEN Ok(sum)
       ELSE IF r.item.val.tag = "Err" THEN Err(r.item.val.val)
            ELSE IF r.item.val.val.tag = "Ok"
                 THEN loop2_from(s, r.pos, sum + r.item.val.val.val)
                 ELSE LET rest == loop2_verify(s, r.pos)
                      IN IF rest.tag = "Err" THEN rest
                         ELSE Err(r.item.val.val.val)

loop2_approach(s) == loop2_from(s, 0, 0)

\* l2res::collect_approach: collect the outer layer, `?`, collect the inner
\* layer, `?`, sum.
collect2_approach(s) ==
    LET c1 == collect_result(s)
    IN IF c1.tag = "Err" THEN c1
       ELSE LET c2 == collect_result(c1.val)
            IN IF c2.tag = "Err" THEN c2 ELSE Ok(Sum(c2.val))

\* ---------------------------------------------------------------- actions
\* `output` before f has returned: a placeholder of the type O of the call,
\* an integer or, for first_err_or_try, a Result.
NoOutput(m) == IF m = "first_err_or_try" THEN NoValue ELSE 0

Init ==
    /\ src \in Sources
    /\ method \in Methods
    /\ budget \in (IF method = "first_err_or" THEN {0} ELSE 0..MaxCalls)
    /\ fres \in (IF method = "first_err_or_try"
                 THEN {Ok(0)} \cup {Err(e) : e \in FErrs} ELSE {Ok(0)})
    /\ value \in (IF method = "first_err_or" THEN OrValues ELSE {0})
    /\ pc = "start"
    /\ pos = 0
    /\ state = NoValue
    /\ rets = <<>>
    /\ trace = <<>>
    /\ pulls = 0
    /\ output = NoOutput(method)
    /\ result = NoValue
    /\ upper = <<>>
    /\ lvl = 1
    /\ calls = <<>>

\* let mut me = Self { state: State::Active(inner) }; then f is entered.
Construct ==
    /\ pc = "start"
    /\ state' = Active
    /\ pc' = "closure"
    /\ UNCHANGED <<calls, upper, lvl, src, method, budget, fres, value, pos, rets, trace, pulls,
                   output, result>>

\* f calls next() on the adapter, and records what it is given.
ClosureNext ==
    /\ pc = "closure"
    /\ Len(rets) < budget
    /\ LET n == FirstErrIter_next(state, src, pos)
       IN /\ state' = n.state
          /\ pos' = n.pos
          /\ rets' = Append(rets, n.ret)
          /\ pulls' = pulls + Len(n.pulled)
          /\ trace' = trace
                      \o InspectedAll(n.pulled)
                      \o (IF n.ret.tag = "Some" THEN <<Inner(n.ret.val)>> ELSE <<>>)
    /\ UNCHANGED <<calls, upper, lvl, src, method, budget, fres, value, pc, output, result>>

\* let output = f(&mut me);
ClosureReturn ==
    /\ pc = "closure"
    /\ Len(rets) = budget
    /\ output' = FOutput(method, rets, fres, value)
    /\ pc' = "match"
    /\ UNCHANGED <<calls, upper, lvl, src, method, budget, fres, value, pos, state, rets, trace,
                   pulls, result>>

\* match me.state { ... }
Match ==
    /\ pc = "match"
    /\ LET m == match_state(state, output)
       IN /\ pc' = m.pc
          /\ result' = m.result
    /\ UNCHANGED <<calls, upper, lvl, src, method, budget, fres, value, pos, state, rets, trace,
                   pulls, output>>

\* for res in inner { let _ = res?; }  Ok(output)
Drain ==
    /\ pc = "drain"
    /\ LET d == drain_step(src, pos, output)
       IN /\ pc' = d.pc
          /\ result' = d.result
          /\ pos' = d.pos
          /\ pulls' = pulls + Len(d.pulled)
          /\ trace' = trace \o InspectedAll(d.pulled)
    /\ UNCHANGED <<calls, upper, lvl, src, method, budget, fres, value, state, rets, output>>

\* The trait method returns (first_err_or_try flattens first).
Return ==
    /\ pc = "ret"
    /\ result' = trait_return(method, result)
    /\ pc' = "done"
    /\ UNCHANGED <<calls, upper, lvl, src, method, budget, fres, value, pos, state, rets, trace,
                   pulls, output>>

Next == Construct \/ ClosureNext \/ ClosureReturn \/ Match \/ Drain \/ Return

Spec == Init /\ [][Next]_vars

\* The call as it runs: the driver is sequential code on one thread, and f
\* returns, so a step that can be taken is taken.
\* (Every step of Next changes pc, the cursor or the answers given to f.)
SpecLive == Init /\ [][Next]_vars /\ WF_<<pc, pos, rets>>(Next)


\* ============================================ repeated calls on one source
\* The source given by mutable reference (`&mut I` is itself an iterator), as
\* in the tests' take_dyn: the source outlives the call, and the next call
\* goes on where the previous one left it.
\* take_dyn makes three calls on the same source.
TakeDynCalls == 3

\* A call has returned and the caller makes the next one, with any method and
\* closure; the result of the finished call and the place where it left the
\* source are kept in `calls`.
NextCall ==
    /\ pc = "done"
    /\ Len(calls) + 1 < TakeDynCalls
    /\ calls' = Append(calls, [method |-> method, result |-> result, upto |-> pos])
    /\ method' \in Methods
    /\ budget' \in (IF method' = "first_err_or" THEN {0} ELSE 0..MaxCalls)
    /\ fres' \in (IF method' = "first_err_or_try"
                  THEN {Ok(0)} \cup {Err(e) : e \in FErrs} ELSE {Ok(0)})
    /\ value' \in (IF method' = "first_err_or" THEN OrValues ELSE {0})
    /\ pc' = "start"
    /\ state' = NoValue
    /\ rets' = <<>>
    /\ trace' = <<>>
    /\ pulls' = 0
    /\ output' = NoOutput(method')
    /\ result' = NoValue
    /\ UNCHANGED <<src, pos, upper, lvl>>

NextRepeat ==
    \/ Construct
    \/ ClosureNext
    \/ ClosureReturn
    \/ Match
    \/ Drain
    \/ Return
    \/ NextCall

SpecRepeat == Init /\ [][NextRepeat]_vars

\* ============================================================ nested calls
\* iter.first_err_or_else(|iter1| iter1.first_err_or_else(|iter2| iter2.sum()))
\* and the same with three layers: the source's items are Results of Results,
\* the adapter of layer k > 1 has the adapter of layer k-1 as its source, and
\* the innermost closure sums.  `state` is the first adapter's state and
\* `upper` the states of the adapters above it.
NestDepths == {2, 3}
NestedMethods == {"nested", "nested_flat"}

\* An item whose Err sits at layer k of d (k-1 Oks around it), or d Oks
\* around a value.
RECURSIVE Wrap(_, _)
Wrap(x, n) == IF n = 0 THEN x ELSE Ok(Wrap(x, n - 1))

NestedItems(d) ==
    {Wrap(v, d) : v \in OkVals}
        \cup {Wrap(Err(e), k - 1) : e \in ErrVals, k \in 1..d}
        \cup {EndSignal}

NestedSources(d) == SeqsUpTo(NestedItems(d), MaxLen)

\* FirstErrIter::next() of the adapter of layer k, given the states of all
\* adapters: layer 1 pulls the source, layer k > 1 calls next() of layer k-1.
RECURSIVE layered_next(_, _, _, _)
layered_next(sts, k, s, p) ==
    IF k = 1
    THEN LET n == FirstErrIter_next(sts[1], s, p)
         IN [states |-> [sts EXCEPT ![1] = n.state], pos |-> n.pos,
             ret |-> n.ret, pulled |-> n.pulled]
    ELSE IF sts[k].tag = "Active"
         THEN LET r == layered_next(sts, k - 1, s, p)
              IN CASE r.ret.tag = "Some" /\ r.ret.val.tag = "Ok" ->
                        [states |-> r.states, pos |-> r.pos,
                         ret |-> Some(r.ret.val.val), pulled |-> r.pulled]
                   [] r.ret.tag = "Some" /\ r.ret.val.tag = "Err" ->
                        [states |-> [r.states EXCEPT ![k] = FoundFirstErr(r.ret.val.val)],
                         pos |-> r.pos, ret |-> None, pulled |-> r.pulled]
                   [] OTHER ->
                        [states |-> [r.states EXCEPT ![k] = Exhausted],
                         pos |-> r.pos, ret |-> None, pulled |-> r.pulled]
         ELSE [states |-> sts, pos |-> p, ret |-> None, pulled |-> <<>>]

\* One iteration of the drain of the driver of layer k: its `inner` is the
\* source (k = 1) or the adapter of layer k-1.
layered_drain_step(sts, k, s, p, out) ==
    IF k = 1
    THEN LET d == drain_step(s, p, out)
         IN [pc |-> d.pc, result |-> d.result, states |-> sts, pos |-> d.pos,
             pulled |-> d.pulled]
    ELSE LET r == layered_next(sts, k - 1, s, p)
         IN CASE r.ret.tag = "Some" /\ r.ret.val.tag = "Err" ->
                   [pc |-> "ret", result |-> Err(r.ret.val.val),
                    states |-> r.states, pos |-> r.pos, pulled |-> r.pulled]
              [] r.ret.tag = "Some" /\ r.ret.val.tag = "Ok" ->
                   [pc |-> "drain", result |-> NoValue,
                    states |-> r.states, pos |-> r.pos, pulled |-> r.pulled]
              [] OTHER ->
                   [pc |-> "ret", result |-> Ok(out),
                    states |-> r.states, pos |-> r.pos, pulled |-> r.pulled]

AllStates == <<state>> \o upper
\* iter.sum() stops at the first None it is given.
SumDone(rs) == rs # <<>> /\ rs[Len(rs)].tag = "None"
Depth == Len(upper) + 1

InitNested ==
    /\ \E d \in NestDepths :
          /\ src \in NestedSources(d)
          /\ upper = [k \in 1..(d - 1) |-> NoValue]
          /\ method \in (IF d = 2 THEN NestedMethods ELSE {"nested"})
          /\ lvl = d
          /\ calls = <<>>
    /\ budget = 0
    /\ fres = Ok(0)
    /\ value = 0
    /\ pc = "start"
    /\ pos = 0
    /\ state = NoValue
    /\ rets = <<>>
    /\ trace = <<>>
    /\ pulls = 0
    /\ output = NoValue
    /\ result = NoValue

\* Each driver constructs its adapter and enters its closure, down to the
\* innermost closure.
NestedConstruct ==
    /\ pc = "start"
    /\ state' = Active
    /\ upper' = [k \in 1..Len(upper) |-> Active]
    /\ pc' = "closure"
    /\ UNCHANGED <<calls, lvl, src, method, budget, fres, value, pos, rets, trace,
                   pulls, output, result>>

\* iter.sum() calls next() on the innermost adapter.
NestedSumNext ==
    /\ pc = "closure"
    /\ ~SumDone(rets)
    /\ LET n == layered_next(AllStates, Depth, src, pos)
       IN /\ state' = n.states[1]
          /\ upper' = Tail(n.states)
          /\ pos' = n.pos
          /\ rets' = Append(rets, n.ret)
          /\ pulls' = pulls + Len(n.pulled)
          /\ trace' = trace \o InspectedAll(n.pulled)
    /\ UNCHANGED <<calls, lvl, src, method, budget, fres, value, pc, output, result>>

\* iter.sum() returns at the adapter's first None.
NestedSumReturn ==
    /\ pc = "closure"
    /\ SumDone(rets)
    /\ output' = Sum(Yielded(rets))
    /\ pc' = "match"
    /\ UNCHANGED <<calls, upper, lvl, src, method, budget, fres, value, pos, state,
                   rets, trace, pulls, result>>

\* match me.state { ... } in the driver of layer lvl.
NestedMatch ==
    /\ pc = "match"
    /\ LET m == match_state(AllStates[lvl], output)
       IN /\ pc' = m.pc
          /\ result' = m.result
    /\ UNCHANGED <<calls, upper, lvl, src, method, budget, fres, value, pos, state,
                   rets, trace, pulls, output>>

\* for res in inner { let _ = res?; }  Ok(output) in the driver of layer lvl.
NestedDrain ==
    /\ pc = "drain"
    /\ LET d == layered_drain_step(AllStates, lvl, src, pos, output)
       IN /\ pc' = d.pc
          /\ result' = d.result
          /\ state' = d.states[1]
          /\ upper' = Tail(d.states)
          /\ pos' = d.pos
          /\ pulls' = pulls + Len(d.pulled)
          /\ trace' = trace \o InspectedAll(d.pulled)
    /\ UNCHANGED <<calls, lvl, src, method, budget, fres, value, rets, output>>

\* The driver of layer lvl returns: to the closure of the layer below it, whose
\* output it is, or, from layer 1, to the caller (who flattens with and_then
\* in the two-layer fallible_sum).
NestedReturn ==
    /\ pc = "ret"
    /\ IF lvl > 1
       THEN /\ output' = result
            /\ result' = NoValue
            /\ lvl' = lvl - 1
            /\ pc' = "match"
       ELSE /\ result' = (IF method = "nested_flat"
                          THEN and_then_flatten(result) ELSE result)
            /\ pc' = "done"
            /\ UNCHANGED <<calls, output, lvl>>
    /\ UNCHANGED <<calls, upper, src, method, budget, fres, value, pos, state, rets,
                   trace, pulls>>

NextNested ==
    \/ NestedConstruct
    \/ NestedSumNext
    \/ NestedSumReturn
    \/ NestedMatch
    \/ NestedDrain
    \/ NestedReturn

SpecNested == InitNested /\ [][NextNested]_vars

\* ======================================================= the Option variant
\* mod option: FirstNoneIter and first_none_or_else / _or_try / _or, over a
\* source of Option items.  The source's items are Some(v) and None; EndSignal
\* is, as above, a place where the source's next() answers None.
OptItems == {Some(v) : v \in OkVals} \cup {None} \cup {EndSignal}

OptSources == SeqsUpTo(OptItems, MaxLen)

NoneMethods == {"first_none_or_else", "first_none_or_try", "first_none_or"}

\* enum State { Active(I), FoundFirstNone, Exhausted }
FoundFirstNone == [tag |-> "FoundFirstNone", val |-> 0]

\* Variants of FirstNoneIter::next() with one slip each.
\* (j) a pulled None ends the iteration but is not latched in the state
FirstNoneIter_next_no_none_latch(st, s, p) ==
    IF st.tag = "Active"
    THEN LET r == inner_next(s, p)
         IN CASE r.item.tag = "Some" /\ r.item.val.tag = "Some" ->
                   [state |-> st, pos |-> r.pos,
                    ret |-> Some(r.item.val.val), pulled |-> <<r.item>>]
              [] r.item.tag = "Some" /\ r.item.val.tag = "None" ->
                   [state |-> st, pos |-> r.pos,
                    ret |-> None, pulled |-> <<r.item>>]
              [] OTHER ->
                   [state |-> Exhausted, pos |-> r.pos,
                    ret |-> None, pulled |-> <<r.item>>]
    ELSE [state |-> st, pos |-> p, ret |-> None, pulled |-> <<>>]

\* FirstNoneIter::next(): the adapter's new state, the source's new cursor,
\* the value returned to the caller, the answers of the source's next().
FirstNoneIter_next(st, s, p) ==
    IF st.tag = "Active"
    THEN LET r == inner_next(s, p)
         IN CASE r.item.tag = "Some" /\ r.item.val.tag = "Some" ->
                   [state |-> st, pos |-> r.pos,
                    ret |-> Some(r.item.val.val), pulled |-> <<r.item>>]
              [] r.item.tag = "Some" /\ r.item.val.tag = "None" ->
                   [state |-> FoundFirstNone, pos |-> r.pos,
                    ret |-> None, pulled |-> <<r.item>>]
              [] OTHER ->
                   [state |-> Exhausted, pos |-> r.pos,
                    ret |-> None, pulled |-> <<r.item>>]
    ELSE [state |-> st, pos |-> p, ret |-> None, pulled |-> <<>>]

\* f's return value.  first_none_or_else: the sum of what f consumed;
\* first_none_or_try: Some(sum) or None; first_none_or: the closure |_| value.
option_FOutput(m, rs, fr, v) ==
    CASE m = "first_none_or_else" -> Sum(Yielded(rs))
      [] m = "first_none_or_try" ->
            IF fr.tag = "Some" THEN Some(Sum(Yielded(rs))) ELSE None
      [] m = "first_none_or" -> v

\* (k) an adapter left Active is taken as "no None": no drain
option_match_state_no_drain(st, out) ==
    CASE st.tag = "Active" -> [pc |-> "ret", result |-> Some(out)]
      [] st.tag = "Exhausted" -> [pc |-> "ret", result |-> Some(out)]
      [] st.tag = "FoundFirstNone" -> [pc |-> "ret", result |-> None]

\* `match me.state { ... }` of FirstNoneIter::first_none_or_else.
option_match_state(st, out) ==
    CASE st.tag = "Active" -> [pc |-> "drain", result |-> NoValue]
      [] st.tag = "Exhausted" -> [pc |-> "ret", result |-> Some(out)]
      [] st.tag = "FoundFirstNone" -> [pc |-> "ret", result |-> None]

\* One iteration of `for opt in inner { let _ = opt?; }` and the Some(output)
\* that follows the loop.
option_drain_step(s, p, out) ==
    LET r == inner_next(s, p)
    IN CASE r.item.tag = "Some" /\ r.item.val.tag = "None" ->
              [pc |-> "ret", result |-> None, pos |-> r.pos,
               pulled |-> <<r.item>>]
         [] r.item.tag = "Some" /\ r.item.val.tag = "Some" ->
              [pc |-> "drain", result |-> NoValue, pos |-> r.pos,
               pulled |-> <<r.item>>]
         [] OTHER ->
              [pc |-> "ret", result |-> Some(out), pos |-> r.pos,
               pulled |-> <<r.item>>]

\* (l) the flattening keeps the outer Some and drops the tag of f's result
option_and_then_flatten_drops_tag(opt) ==
    IF opt.tag = "Some" THEN Some(opt.val.val) ELSE opt

\* Option::and_then(|opt| opt) of first_none_or_try.
option_and_then_flatten(opt) == IF opt.tag = "Some" THEN opt.val ELSE opt

\* What the trait method does with FirstNoneIter::first_none_or_else's result.
option_trait_return(m, opt) ==
    IF m = "first_none_or_try" THEN option_and_then_flatten(opt) ELSE opt

InitNone ==
    /\ src \in OptSources
    /\ method \in NoneMethods
    /\ budget \in (IF method = "first_none_or" THEN {0} ELSE 0..MaxCalls)
    /\ fres \in (IF method = "first_none_or_try" THEN {Some(0), None} ELSE {Some(0)})
    /\ value \in (IF method = "first_none_or" THEN OrValues ELSE {0})
    /\ pc = "start"
    /\ pos = 0
    /\ state = NoValue
    /\ rets = <<>>
    /\ trace = <<>>
    /\ pulls = 0
    /\ output = NoValue
    /\ result = NoValue
    /\ upper = <<>>
    /\ lvl = 1
    /\ calls = <<>>

\* let mut me = Self { state: State::Active(inner) }; then f is entered.
NoneConstruct ==
    /\ pc = "start"
    /\ state' = Active
    /\ pc' = "closure"
    /\ UNCHANGED <<calls, upper, lvl, src, method, budget, fres, value, pos, rets, trace, pulls,
                   output, result>>

\* f calls next() on the adapter, and records what it is given.
NoneClosureNext ==
    /\ pc = "closure"
    /\ Len(rets) < budget
    /\ LET n == FirstNoneIter_next(state, src, pos)
       IN /\ state' = n.state
          /\ pos' = n.pos
          /\ rets' = Append(rets, n.ret)
          /\ pulls' = pulls + Len(n.pulled)
          /\ trace' = trace
                      \o InspectedAll(n.pulled)
                      \o (IF n.ret.tag = "Some" THEN <<Inner(n.ret.val)>> ELSE <<>>)
    /\ UNCHANGED <<calls, upper, lvl, src, method, budget, fres, value, pc, output, result>>

\* let output = f(&mut me);
NoneClosureReturn ==
    /\ pc = "closure"
    /\ Len(rets) = budget
    /\ output' = option_FOutput(method, rets, fres, value)
    /\ pc' = "match"
    /\ UNCHANGED <<calls, upper, lvl, src, method, budget, fres, value, pos, state, rets, trace,
                   pulls, result>>

\* match me.state { ... }
NoneMatch ==
    /\ pc = "match"
    /\ LET m == option_match_state(state, output)
       IN /\ pc' = m.pc
          /\ result' = m.result
    /\ UNCHANGED <<calls, upper, lvl, src, method, budget, fres, value, pos, state, rets, trace,
                   pulls, output>>

\* for opt in inner { let _ = opt?; }  Some(output)
NoneDrain ==
    /\ pc = "drain"
    /\ LET d == option_drain_step(src, pos, output)
       IN /\ pc' = d.pc
          /\ result' = d.result
          /\ pos' = d.pos
          /\ pulls' = pulls + Len(d.pulled)
          /\ trace' = trace \o InspectedAll(d.pulled)
    /\ UNCHANGED <<calls, upper, lvl, src, method, budget, fres, value, state, rets, output>>

\* The trait method returns (first_none_or_try flattens first).
NoneReturn ==
    /\ pc = "ret"
    /\ result' = option_trait_return(method, result)
    /\ pc' = "done"
    /\ UNCHANGED <<calls, upper, lvl, src, method, budget, fres, value, pos, state, rets, trace,
                   pulls, output>>

NextNone ==
    \/ NoneConstruct
    \/ NoneClosureNext
    \/ NoneClosureReturn
    \/ NoneMatch
    \/ NoneDrain
    \/ NoneReturn

SpecNone == InitNone /\ [][NextNone]_vars

\* ---------------------------------- the Result variant, with its effects
\* What a call of the Result variant lets an observer see, as a function of
\* the call's inputs: the events of f's n calls of next() and of the drain,
\* and the number of calls of the source's next().
RECURSIVE closure_effects(_, _, _, _)
closure_effects(st, s, p, n) ==
    IF n = 0 THEN [trace |-> <<>>, pulls |-> 0]
    ELSE LET x == FirstErrIter_next(st, s, p)
             rest == closure_effects(x.state, s, x.pos, n - 1)
         IN [trace |-> InspectedAll(x.pulled)
                       \o (IF x.ret.tag = "Some" THEN <<Inner(x.ret.val)>> ELSE <<>>)
                       \o rest.trace,
             pulls |-> Len(x.pulled) + rest.pulls]

RECURSIVE drain_effects(_, _, _)
drain_effects(s, p, out) ==
    LET d == drain_step(s, p, out)
        rest == IF d.pc = "drain" THEN drain_effects(s, d.pos, out)
                ELSE [trace |-> <<>>, pulls |-> 0]
    IN [trace |-> InspectedAll(d.pulled) \o rest.trace,
        pulls |-> Len(d.pulled) + rest.pulls]

first_err_effects(m, s, n, fr, v) ==
    LET c == closure_run(Active, s, 0, n)
        ce == closure_effects(Active, s, 0, n)
        out == FOutput(m, c.rets, fr, v)
        de == IF match_state(c.state, out).pc = "drain"
              THEN drain_effects(s, c.pos, out)
              ELSE [trace |-> <<>>, pulls |-> 0]
    IN [rets |-> c.rets, trace |-> ce.trace \o de.trace, pulls |-> ce.pulls + de.pulls]

\* ============================================================ properties
\* Notions of the specification, stated on the source alone.

\* The items the source produces before it first answers None.
RECURSIVE Items(_)
Items(s) ==
    IF s = <<>> THEN <<>>
    ELSE IF Head(s).tag = "End" THEN <<>>
         ELSE <<Head(s)>> \o Items(Tail(s))

ErrIndexes(s) == {i \in 1..Len(s) : s[i].tag = "Err"}
HasErr(s) == ErrIndexes(Items(s)) # {}
Min(S) == CHOOSE x \in S : \A y \in S : x <= y
FirstErrIndex(s) == Min(ErrIndexes(Items(s)))
FirstErrValue(s) == Items(s)[FirstErrIndex(s)].val

\* The unwrapped Ok values that come before the first Err (or the end).
RECURSIVE OkPrefix(_)
OkPrefix(s) ==
    IF s = <<>> THEN <<>>
    ELSE IF Head(s).tag = "Ok" THEN <<Head(s).val>> \o OkPrefix(Tail(s))
         ELSE <<>>

IsPrefix(a, b) == Len(a) <= Len(b) /\ a = SubSeq(b, 1, Len(a))
AllOk(s) == \A i \in 1..Len(s) : s[i].tag = "Ok"
Fused(s) == \A i \in 1..Len(s) : s[i].tag # "End"
NoneIndexes(rs) == {i \in 1..Len(rs) : rs[i].tag = "None"}
Done == pc = "done"

\* C1: first_err_or_else returns a failure if and only if the source, up to
\* its end, contains a failure: however many items f pulled.
C1_FailureIffSourceHasFailure ==
    (Done /\ method = "first_err_or_else") => (result.tag = "Err" <=> HasErr(src))

\* f stopped before the failure, which the drain then found.
C1_Witness ==
    /\ Done /\ method = "first_err_or_else"
    /\ HasErr(src) /\ 0 < budget /\ budget < FirstErrIndex(src)
    /\ result.tag = "Err"

\* C2: when the source has failures, first_err_or_else returns the one at the
\* first failing position, whatever f consumed and whatever failures follow.
C2_ReturnsFirstFailure ==
    (Done /\ method = "first_err_or_else" /\ HasErr(src))
        => result = Err(FirstErrValue(src))

\* Two failures with different values, f calling next() past both positions.
C2_Witness ==
    /\ Done /\ method = "first_err_or_else"
    /\ \E i, j \in ErrIndexes(Items(src)) :
          i < j /\ j <= budget /\ Items(src)[i].val # Items(src)[j].val
    /\ result = Err(FirstErrValue(src))

\* C3: on a finite source of successes only, first_err_or_else returns Ok of
\* exactly what f returned, whether or not f consumed the whole adapter.
C3_AllOkReturnsOutput ==
    (Done /\ method = "first_err_or_else" /\ AllOk(src)) => result = Ok(output)

\* f consumed a proper, non-empty part of an all-Ok source.
C3_Witness ==
    /\ Done /\ method = "first_err_or_else" /\ AllOk(src)
    /\ 0 < budget /\ budget < Len(src)
    /\ output = Sum(Yielded(rets)) /\ output > 0
    /\ result = Ok(output)

\* C4: what the adapter yields is a prefix of the source's Ok values before
\* the first Err, in order; once the adapter has answered None it is all of
\* them; and it is never longer than the source.
C4_YieldsOkPrefix ==
    /\ IsPrefix(Yielded(rets), OkPrefix(src))
    /\ NoneIndexes(rets) # {} => Yielded(rets) = OkPrefix(src)
    /\ Len(Yielded(rets)) <= Len(src)

\* f pulled until None on a source with two Ok values and then an Err.
C4_Witness ==
    /\ HasErr(src) /\ Len(OkPrefix(src)) >= 2
    /\ OkPrefix(src)[1] # OkPrefix(src)[2]
    /\ NoneIndexes(rets) # {}
    /\ Yielded(rets) = OkPrefix(src)

\* C5: when f never calls next(), first_err_or_else still returns the first
\* failure of the source: the same result as when f consumes the whole
\* adapter.
C5_UntouchedAdapterSameFailure ==
    (Done /\ method = "first_err_or_else" /\ budget = 0 /\ HasErr(src))
        => /\ result = Err(FirstErrValue(src))
           /\ result = first_err_call(method, src, Len(src) + 1, fres, value)

\* f pulled nothing and the failure is not the first item.
C5_Witness ==
    /\ Done /\ method = "first_err_or_else" /\ budget = 0
    /\ HasErr(src) /\ FirstErrIndex(src) >= 2
    /\ rets = <<>>
    /\ result = Err(FirstErrValue(src))

\* C6: laziness.  While f runs, nothing is pulled before f's first request,
\* every request made while the adapter is Active causes exactly one pull, and
\* the recorded events alternate: the source produces item i, f sees item i,
\* the source produces item i+1, ...; the source's events are its items in
\* order.
ActiveCalls(rs) == IF NoneIndexes(rs) = {} THEN Len(rs) ELSE Min(NoneIndexes(rs))

RECURSIVE OuterItems(_)
OuterItems(tr) ==
    IF tr = <<>> THEN <<>>
    ELSE IF Head(tr).who = "Outer" THEN <<Head(tr).item>> \o OuterItems(Tail(tr))
         ELSE OuterItems(Tail(tr))

Alternates(tr) ==
    \A i \in 1..Len(tr) :
        /\ (tr[i].who = "Outer" /\ tr[i].item.tag = "Ok")
              => (i < Len(tr) /\ tr[i + 1] = Inner(tr[i].item.val))
        /\ (tr[i].who = "Outer" /\ tr[i].item.tag = "Err") => i = Len(tr)
        /\ tr[i].who = "Inner" => (i > 1 /\ tr[i - 1] = Outer(Ok(tr[i].item)))

C6_Laziness ==
    /\ (pc = "start" \/ (pc = "closure" /\ rets = <<>>))
          => (pulls = 0 /\ trace = <<>>)
    /\ pc \in {"closure", "match"}
          => /\ pulls = ActiveCalls(rets)
             /\ Alternates(trace)
             /\ IsPrefix(OuterItems(trace), Items(src))

\* The trace of the laziness test: Outer(Ok a), Inner(a), Outer(Ok b),
\* Inner(b), Outer(Err e).
C6_Witness ==
    /\ pc = "closure" /\ Len(trace) = 5
    /\ trace[1].who = "Outer" /\ trace[2].who = "Inner"
    /\ trace[3].who = "Outer" /\ trace[4].who = "Inner"
    /\ trace[2].item # trace[4].item
    /\ trace[5].who = "Outer" /\ trace[5].item.tag = "Err"
    /\ pulls = 3

\* C7: once the adapter has left Active, no step of the call invokes the
\* source's next() again: neither a next() of f nor the driver.
C7_NoPullAfterInert ==
    [][state.tag \in {"FoundFirstErr", "Exhausted"}
          => (pulls' = pulls /\ pos' = pos)]_vars

\* The call ended with the adapter inert, f having called next() again after
\* the first None, and items of the source left un-pulled.
C7_Witness ==
    /\ Done /\ state.tag \in {"FoundFirstErr", "Exhausted"}
    /\ Cardinality(NoneIndexes(rets)) >= 2
    /\ pos < Len(src)
    /\ pulls = pos

\* C8: after the adapter's first None every later next() returns None, also
\* on a non-fused source that would produce items again.
C8_InertAfterFirstNone ==
    \A i, j \in 1..Len(rets) : (i < j /\ rets[i].tag = "None") => rets[j].tag = "None"

\* The source signalled its end, an Ok item follows it, and f called next()
\* again.
C8_Witness ==
    /\ state = Exhausted
    /\ Cardinality(NoneIndexes(rets)) >= 2
    /\ pos < Len(src) /\ src[pos + 1].tag = "Ok"

\* C9: the first end signal of a non-fused source is terminal: nothing after
\* it is pulled, and with only successes before it the result is Ok of f's
\* output, whatever follows.
C9_FirstEndIsTerminal ==
    /\ pos <= Len(Items(src)) + 1
    /\ (Done /\ method = "first_err_or_else" /\ ~Fused(src) /\ ~HasErr(src))
          => result = Ok(output)

\* Successes, an end signal, then a failure the source would still produce.
C9_Witness ==
    /\ Done /\ method = "first_err_or_else"
    /\ Len(Items(src)) >= 1 /\ ~HasErr(src)
    /\ \E k \in 1..Len(src) : src[k].tag = "End" /\ \E j \in (k + 1)..Len(src) : src[j].tag = "Err"
    /\ result = Ok(output)

\* C10: first_err_or_try returns the first failure of the source whenever the
\* source has one, also when f returns a failure of its own and also when the
\* source's failure lies in the part f never pulled.
C10_SourceFailureBeforeClosureFailure ==
    (Done /\ method = "first_err_or_try" /\ HasErr(src))
        => result = Err(FirstErrValue(src))

\* f returned its own Err without having pulled the source's failure.
C10_Witness ==
    /\ Done /\ method = "first_err_or_try"
    /\ fres.tag = "Err" /\ output = fres
    /\ HasErr(src) /\ budget < FirstErrIndex(src)
    /\ result = Err(FirstErrValue(src)) /\ result # fres


\* C11: on a source with no failure first_err_or_try returns exactly what f
\* returned, Ok(v) or Err(e): the result of first_err_or_else on the same
\* closure, flattened.
C11_TryReturnsClosureResult ==
    (Done /\ method = "first_err_or_try" /\ ~HasErr(src))
        => /\ result = output
           /\ output = (IF fres.tag = "Ok" THEN Ok(Sum(Yielded(rets))) ELSE fres)

\* f returned its own Err on a source of successes f did not consume.
C11_Witness ==
    /\ Done /\ method = "first_err_or_try" /\ ~HasErr(src)
    /\ Len(Items(src)) >= 2 /\ budget < Len(Items(src))
    /\ fres.tag = "Err" /\ result = fres

\* C12: first_err_or(value) returns the first failure of the source when it
\* has one and Ok(value) otherwise, as first_err_or_else does with a closure
\* that ignores the adapter and returns value.
C12_OrIsOrElseWithConstantClosure ==
    (Done /\ method = "first_err_or")
        => /\ rets = <<>>
           /\ output = value
           /\ result = IF HasErr(src) THEN Err(FirstErrValue(src)) ELSE Ok(value)

\* A failure behind a success, found by the drain.
C12_Witness ==
    /\ Done /\ method = "first_err_or" /\ value # 0
    /\ HasErr(src) /\ FirstErrIndex(src) >= 2
    /\ result = Err(FirstErrValue(src))


\* C16: first_err_or_else returns what the eager pattern returns, collecting
\* into a Result of a collection and running f on the collected values; and,
\* when f sums the whole adapter, what the hand-written early-return loop and
\* the collect-then-sum function return.
C16_SameAsCollectAndLoop ==
    (Done /\ method = "first_err_or_else")
        => /\ result = collect_then(src, budget)
           /\ NoneIndexes(rets) # {}
                 => (result = loop_approach(src) /\ result = collect_approach(src))

\* f summed the whole adapter of a source with a failure in its middle.
C16_Witness ==
    /\ Done /\ method = "first_err_or_else"
    /\ NoneIndexes(rets) # {}
    /\ HasErr(src) /\ FirstErrIndex(src) = 2 /\ Len(Items(src)) >= 3
    /\ result = loop_approach(src) /\ result.tag = "Err"


\* ------------------------------------------------------------ nested calls
\* The layer at which an item of a d-layer source fails (1 = outermost), or 0
\* for d Oks around a value; the failure's value; the value.
RECURSIVE ErrLayerIn(_, _)
ErrLayerIn(x, d) ==
    IF x.tag = "Err" THEN 1
    ELSE IF d = 1 THEN 0
         ELSE LET l == ErrLayerIn(x.val, d - 1) IN IF l = 0 THEN 0 ELSE l + 1

RECURSIVE ErrValueIn(_)
ErrValueIn(x) == IF x.tag = "Err" THEN x.val ELSE ErrValueIn(x.val)

RECURSIVE ValueIn(_, _)
ValueIn(x, d) == IF d = 0 THEN x ELSE ValueIn(x.val, d - 1)

LayerErrIndexes(s, k, d) ==
    {i \in 1..Len(Items(s)) : ErrLayerIn(Items(s)[i], d) = k}
HasLayerErr(s, k, d) == LayerErrIndexes(s, k, d) # {}
FirstLayerErr(s, k, d) == ErrValueIn(Items(s)[Min(LayerErrIndexes(s, k, d))])
AnyErrIndexes(s, d) == {i \in 1..Len(Items(s)) : ErrLayerIn(Items(s)[i], d) # 0}

RECURSIVE TotalFrom(_, _, _)
TotalFrom(s, i, d) ==
    IF i > Len(s) THEN 0 ELSE ValueIn(s[i], d) + TotalFrom(s, i + 1, d)

\* C13: in a nested call an outer-layer failure anywhere in the source is
\* the result, also when an inner-layer failure comes earlier in the source
\* and was seen first; with three layers the same holds one level down: with
\* no layer-1 failure, a layer-2 failure anywhere is the (wrapped) result,
\* whatever layer-3 failures precede it.
C13_OuterFailureWins ==
    Done =>
        /\ HasLayerErr(src, 1, Depth) => result = Err(FirstLayerErr(src, 1, Depth))
        /\ (Depth = 3 /\ ~HasLayerErr(src, 1, 3) /\ HasLayerErr(src, 2, 3))
              => result = Ok(Err(FirstLayerErr(src, 2, 3)))

\* [.., Ok(Err a), .., Err b, ..] with a # b: the inner failure a was seen
\* by the inner adapter, the outer failure b is returned.
C13_Witness ==
    /\ Done /\ Depth = 2
    /\ \E i \in LayerErrIndexes(src, 2, 2), j \in LayerErrIndexes(src, 1, 2) :
          /\ i < j
          /\ ErrValueIn(Items(src)[i]) # ErrValueIn(Items(src)[j])
          /\ upper[1] = FoundFirstErr(ErrValueIn(Items(src)[i]))
          /\ result = Err(ErrValueIn(Items(src)[j]))


\* The result of a two-layer call as the caller of fallible_sum sees it.
Flat(res) == IF method = "nested" THEN and_then_flatten(res) ELSE res

\* C14, as stated: the two-layer nested call returns the failure that comes
\* first in source order, at whichever layer it is.
C14_FirstFailureInSourceOrder ==
    (Done /\ Depth = 2 /\ AnyErrIndexes(src, 2) # {})
        => Flat(result) = Err(ErrValueIn(Items(src)[Min(AnyErrIndexes(src, 2))]))

\* C14, amended: the two-layer nested call returns the failure that comes
\* first in source order, unless the source has an outer-layer failure: then
\* it returns the first outer-layer failure, also behind an inner one.
C14_FirstFailureUnlessOuterExists ==
    (Done /\ Depth = 2 /\ AnyErrIndexes(src, 2) # {})
        => Flat(result) =
              IF HasLayerErr(src, 1, 2)
              THEN Err(FirstLayerErr(src, 1, 2))
              ELSE Err(ErrValueIn(Items(src)[Min(AnyErrIndexes(src, 2))]))

\* Two inner failures with different values and no outer one: the flattened
\* result is the first.
C14_Witness ==
    /\ Done /\ Depth = 2 /\ method = "nested_flat"
    /\ ~HasLayerErr(src, 1, 2)
    /\ \E i, j \in LayerErrIndexes(src, 2, 2) :
          /\ i < j
          /\ ErrValueIn(Items(src)[i]) # ErrValueIn(Items(src)[j])
          /\ result = Err(ErrValueIn(Items(src)[i]))

\* C15: the two-layer call without flattening, on a source with no outer
\* failure, returns Ok of the inner call's result: the first inner failure
\* when there is one, else Ok of the sum of all values.
C15_NoOuterFailureWrapsInnerResult ==
    (Done /\ Depth = 2 /\ method = "nested" /\ ~HasLayerErr(src, 1, 2))
        => result = Ok(IF HasLayerErr(src, 2, 2)
                       THEN Err(FirstLayerErr(src, 2, 2))
                       ELSE Ok(TotalFrom(Items(src), 1, 2)))

\* A value, then two inner failures with different values.
C15_Witness ==
    /\ Done /\ Depth = 2 /\ method = "nested"
    /\ ~HasLayerErr(src, 1, 2)
    /\ Len(Items(src)) >= 3 /\ ErrLayerIn(Items(src)[1], 2) = 0
    /\ LayerErrIndexes(src, 2, 2) = {2, 3}
    /\ ErrValueIn(Items(src)[2]) # ErrValueIn(Items(src)[3])
    /\ result = Ok(Err(ErrValueIn(Items(src)[2])))

\* C17: the flattened two-layer call returns what the reference loop and the
\* layer-by-layer collect return: the first outer failure if there is one
\* anywhere, else the first inner failure if there is one, else Ok of the
\* sum of all values.
C17_SameAsLoopAndCollectTwoLayers ==
    (Done /\ Depth = 2 /\ method = "nested_flat")
        => /\ result = loop2_approach(src)
           /\ result = collect2_approach(src)
           /\ result = IF HasLayerErr(src, 1, 2) THEN Err(FirstLayerErr(src, 1, 2))
                       ELSE IF HasLayerErr(src, 2, 2) THEN Err(FirstLayerErr(src, 2, 2))
                       ELSE Ok(TotalFrom(Items(src), 1, 2))

\* A value, an inner failure, then an outer failure with another value.
C17_Witness ==
    /\ Done /\ Depth = 2 /\ method = "nested_flat"
    /\ Len(Items(src)) >= 3 /\ ErrLayerIn(Items(src)[1], 2) = 0
    /\ ErrLayerIn(Items(src)[2], 2) = 2 /\ ErrLayerIn(Items(src)[3], 2) = 1
    /\ ErrValueIn(Items(src)[2]) # ErrValueIn(Items(src)[3])
    /\ result = loop2_approach(src)
    /\ result = Err(ErrValueIn(Items(src)[3]))


\* ------------------------------------------------------ the Option variant
NoneItemIndexes(s) == {i \in 1..Len(s) : s[i].tag = "None"}
\* The source produces an absent item before its end.
HasNone(s) == NoneItemIndexes(Items(s)) # {}

\* C18: first_none_or_else returns None if and only if the source, up to its
\* end, contains a None item, however many items f pulled; otherwise it
\* returns Some of f's output.
C18_NoneIffSourceHasNone ==
    (Done /\ method = "first_none_or_else")
        => /\ result = None <=> HasNone(src)
           /\ ~HasNone(src) => (result = Some(output) /\ output = Sum(Yielded(rets)))

\* f pulled nothing, the None is behind a value: the drain finds it.
C18_Witness ==
    /\ Done /\ method = "first_none_or_else"
    /\ budget = 0 /\ HasNone(src) /\ Min(NoneItemIndexes(Items(src))) >= 2
    /\ pulls >= 2
    /\ result = None

\* The Result sources, closure results and method that the mirror maps to a
\* given Option source, closure result and method.
ErrToNoneItem(x) ==
    IF x.tag = "Ok" THEN Some(x.val) ELSE IF x.tag = "Err" THEN None ELSE x
ErrToNone(r) == IF r.tag = "Ok" THEN Some(r.val) ELSE None
ErrToNoneTrace(tr) ==
    [i \in 1..Len(tr) |->
        IF tr[i].who = "Outer" THEN Outer(ErrToNoneItem(tr[i].item)) ELSE tr[i]]
ResultItemsOf(x) ==
    IF x.tag = "None" THEN {Err(e) : e \in ErrVals}
    ELSE IF x.tag = "Some" THEN {Ok(x.val)} ELSE {x}
RECURSIVE ResultSourcesOf(_)
ResultSourcesOf(s) ==
    IF s = <<>> THEN {<<>>}
    ELSE {<<x>> \o r : x \in ResultItemsOf(Head(s)), r \in ResultSourcesOf(Tail(s))}
ResultFresOf(fr) == IF fr.tag = "Some" THEN {Ok(0)} ELSE {Err(e) : e \in FErrs}
ResultMethodOf(m) ==
    CASE m = "first_none_or_else" -> "first_err_or_else"
      [] m = "first_none_or_try" -> "first_err_or_try"
      [] m = "first_none_or" -> "first_err_or"

\* C19: the Option variant mirrors the Result variant.  For every source of
\* Ok/Err items and every f, the first_none_* call on the source with each
\* Err mapped to None returns the first_err_* result with Err mapped to None,
\* gives f the same answers, and makes the same source pulls in the same
\* order.
C19_OptionMirrorsResult ==
    Done =>
        \A rs \in ResultSourcesOf(src), fr \in ResultFresOf(fres) :
            LET m == ResultMethodOf(method)
                r == first_err_call(m, rs, budget, fr, value)
                e == first_err_effects(m, rs, budget, fr, value)
            IN /\ result = ErrToNone(r)
               /\ rets = e.rets
               /\ pulls = e.pulls
               /\ trace = ErrToNoneTrace(e.trace)

\* A value, a None, more items, and an f that keeps asking after the None.
C19_Witness ==
    /\ Done /\ method = "first_none_or_try" /\ fres.tag = "Some"
    /\ Len(src) >= 3 /\ src[1].tag = "Some" /\ src[2].tag = "None"
    /\ budget >= 3 /\ rets = <<Some(src[1].val), None, None>>
    /\ pulls = 2
    /\ result = None
    /\ result = ErrToNone(first_err_call("first_err_or_try", <<Ok(src[1].val), Err(2), Ok(1)>>,
                                         3, Ok(0), 0))

\* C20: first_none_or_try returns None when the source contains a None item
\* or f returns None, and Some(v) only when the source has no None item and f
\* returns Some(v).
C20_TryNoneCases ==
    (Done /\ method = "first_none_or_try")
        => /\ (HasNone(src) \/ fres.tag = "None") => result = None
           /\ result.tag = "Some"
                 => (~HasNone(src) /\ output.tag = "Some" /\ result = output)

\* No None in a source of two items, f pulls one and returns None.
C20_Witness ==
    /\ Done /\ method = "first_none_or_try"
    /\ ~HasNone(src) /\ Len(Items(src)) >= 2 /\ budget = 1
    /\ fres.tag = "None" /\ output = None
    /\ result = None


\* ------------------------------------------------- effects and the driver
\* The number of calls of the source's next() up to and including the one
\* that answers the first Err, or the first None when no Err comes first.
StopPulls(s) == IF HasErr(s) THEN FirstErrIndex(s) ELSE Len(Items(s)) + 1
\* The items the source produces on the way: up to and including the first
\* Err, or all of them up to the end.
ProducedItems(s) ==
    SubSeq(Items(s), 1, IF HasErr(s) THEN FirstErrIndex(s) ELSE Len(Items(s)))

\* C21: over the whole call the source's next() is called for every item up
\* to and including the first Err (or through the first None when there is
\* no Err), once per item, in source order, and for nothing beyond: the
\* number of pulls is the index of the first Err or end plus one, however
\* many items f consumed.
C21_PullsThroughFirstFailureOrEnd ==
    Done => /\ pulls = StopPulls(src)
            /\ pos = (IF StopPulls(src) <= Len(src) THEN StopPulls(src) ELSE Len(src))
            /\ OuterItems(trace) = ProducedItems(src)

\* f pulled one item, the drain the second, an Err; a third item is left.
C21_Witness ==
    /\ Done /\ budget = 1
    /\ Len(src) >= 3 /\ src[2].tag = "Err" /\ src[3].tag # "End"
    /\ rets = <<Some(src[1].val)>>
    /\ pulls = 2 /\ pos = 2
    /\ OuterItems(trace) = <<src[1], src[2]>>

\* C22: f is invoked exactly once per call, on a freshly constructed Active
\* adapter, for every source: the call enters f from its start and nowhere
\* else, with the adapter Active and nothing pulled; it leaves f with f's
\* output to the match; and it never enters f again.
C22_ClosureInvokedOnce ==
    [][/\ pc = "start"
          => (pc' = "closure" /\ state' = Active /\ pos' = 0 /\ pulls' = 0
              /\ rets' = <<>>)
       /\ pc = "closure"
          => (pc' = "closure"
              \/ (pc' = "match" /\ output' = FOutput(method, rets, fres, value)))
       /\ pc \in {"match", "drain", "ret", "done"}
          => (pc' \notin {"start", "closure"} /\ output' = output)]_vars

\* The call is over on a source whose very first item is an Err, which f
\* asked for.
C22_Witness ==
    /\ Done /\ method = "first_err_or_else"
    /\ Len(src) >= 2 /\ src[1].tag = "Err"
    /\ budget >= 1 /\ rets[1] = None
    /\ output = 0
    /\ result = Err(src[1].val)

\* C23: the adapter's state only moves from Active to FoundFirstErr or to
\* Exhausted; once FoundFirstErr or Exhausted it never changes again,
\* whatever next() calls follow, and the stored Err is never replaced.
C23_StateMonotonic ==
    [][/\ state.tag = "Active"
          => state'.tag \in {"Active", "FoundFirstErr", "Exhausted"}
       /\ state.tag \in {"FoundFirstErr", "Exhausted"} => state' = state]_vars

\* The adapter holds an Err, f called next() again, and the source's next
\* item is an Err with another value.
C23_Witness ==
    /\ state.tag = "FoundFirstErr"
    /\ Cardinality(NoneIndexes(rets)) >= 2
    /\ pos < Len(src) /\ src[pos + 1].tag = "Err" /\ src[pos + 1].val # state.val
    /\ src[pos] = Err(state.val)

\* C24: the driver has no error of its own.  An Err returned by
\* first_err_or_else or first_err_or is an Err item the source produced; an
\* Err returned by first_err_or_try is such an item or the Err f returned.
C24_NoOwnErrorKind ==
    (Done /\ result.tag = "Err")
        => \/ \E i \in 1..Len(OuterItems(trace)) : OuterItems(trace)[i] = result
           \/ (method = "first_err_or_try" /\ result = fres)

\* Two Err items with different values; the drain found the first.
C24_Witness ==
    /\ Done /\ method = "first_err_or" /\ pulls = 2
    /\ Len(src) >= 3 /\ src[1].tag = "Ok" /\ src[2].tag = "Err" /\ src[3].tag = "Err"
    /\ src[2].val # src[3].val
    /\ result = src[2]


\* What the trait method returns when the driver returns Ok(output).
OkOfOutput == IF method = "first_err_or_try" THEN output ELSE Ok(output)

\* C26: when f returns with the adapter still Active, the driver scans the
\* rest of the source itself: an Ok item is discarded and the scan goes on,
\* the first Err stops the scan at once and is returned, and when the source
\* ends without an Err the driver returns Ok of f's output.
C26_ActiveArmDrains ==
    (Done /\ state = Active)
        => LET rest == SubSeq(src, Len(rets) + 1, Len(src))
           IN /\ result = IF HasErr(rest) THEN Err(FirstErrValue(rest)) ELSE OkOfOutput
              /\ pulls = Len(rets) + StopPulls(rest)
              /\ pos = (IF pulls <= Len(src) THEN pulls ELSE Len(src))
              /\ Len(trace) = Len(OuterItems(trace)) + Len(rets)
              /\ output = FOutput(method, rets, fres, value)

\* f pulled nothing and returned its own Err; the drain discarded an Ok item
\* and stopped at the first of two Err items.
C26_Witness ==
    /\ Done /\ state = Active /\ budget = 0
    /\ method = "first_err_or_try" /\ fres.tag = "Err"
    /\ Len(src) = 3 /\ src[1].tag = "Ok" /\ src[2].tag = "Err" /\ src[3].tag = "Err"
    /\ src[2].val # src[3].val
    /\ pos = 2 /\ trace = <<Outer(src[1]), Outer(src[2])>>
    /\ result = src[2]

\* C27: when f returns and the adapter holds FoundFirstErr(e), the driver
\* returns Err(e) whatever f returned, and does not touch the source.
C27_FoundArmReturnsStoredErr ==
    (Done /\ state.tag = "FoundFirstErr")
        => /\ result = Err(state.val)
           /\ src[pos] = result
           /\ pulls = ActiveCalls(rets)

\* f summed a value, then met the Err, and returned an Err of its own.
C27_Witness ==
    /\ Done /\ state.tag = "FoundFirstErr"
    /\ method = "first_err_or_try" /\ fres.tag = "Err" /\ output = fres
    /\ Yielded(rets) # <<>>
    /\ result = Err(state.val) /\ result # output

\* C28: when f returns and the adapter is Exhausted, the driver returns Ok
\* of f's output and does not drain: the source answered None to the adapter
\* after successes only, and is not pulled again.
C28_ExhaustedArmReturnsOutput ==
    (Done /\ state = Exhausted)
        => /\ result = OkOfOutput
           /\ pulls = ActiveCalls(rets)
           /\ pulls = Len(Items(src)) + 1
           /\ AllOk(OuterItems(trace))
           /\ Len(OuterItems(trace)) = pulls - 1

\* A value, the end signal, then an Err the source would still produce.
C28_Witness ==
    /\ Done /\ state = Exhausted /\ method = "first_err_or_else"
    /\ Len(src) = 3 /\ src[1].tag = "Ok" /\ src[2].tag = "End" /\ src[3].tag = "Err"
    /\ budget >= 2 /\ pos = 2 /\ pulls = 2
    /\ result = Ok(src[1].val)

\* C29: a next() of the Active adapter that pulls an Err stores that Err in
\* FoundFirstErr, answers None in that very call, and the source is not
\* pulled again; one that pulls an Ok answers the unwrapped value and leaves
\* the adapter Active.
C29_NextOnErrAndOnOk ==
    [][/\ (pc = "closure" /\ state = Active /\ rets' # rets /\ pos < Len(src))
          => /\ src[pos + 1].tag = "Err"
                => /\ state' = FoundFirstErr(src[pos + 1].val)
                   /\ rets' = Append(rets, None)
                   /\ pos' = pos + 1
             /\ src[pos + 1].tag = "Ok"
                => /\ state' = Active
                   /\ rets' = Append(rets, Some(src[pos + 1].val))
                   /\ pos' = pos + 1
       /\ state.tag = "FoundFirstErr"
          => (pos' = pos /\ pulls' = pulls /\ Yielded(rets') = Yielded(rets))]_vars

\* f was given the first item's value, then None for the Err behind it.
C29_Witness ==
    /\ pc = "closure"
    /\ Len(src) >= 2 /\ src[1].tag = "Ok" /\ src[2].tag = "Err"
    /\ src[1].val # src[2].val
    /\ rets = <<Some(src[1].val), None>>
    /\ state = FoundFirstErr(src[2].val)

\* C30: the phases of a call are exclusive.  The source is pulled only by a
\* next() of f and by the drain; the drain starts only from the match, after
\* f returned; once f has returned the adapter is never used again; and so
\* every pull made for f comes before every pull of the drain: the values f
\* is given sit right behind the first items produced, and nowhere else.
C30_ExclusivePhases ==
    /\ [](\A i \in 1..Len(trace) :
             trace[i].who = "Inner"
                <=> (i % 2 = 0 /\ i <= 2 * Len(Yielded(rets))))
    /\ [][/\ pulls' # pulls => (pc \in {"closure", "drain"} /\ pulls' = pulls + 1)
          /\ (pc = "closure" /\ pulls' # pulls) => Len(rets') = Len(rets) + 1
          /\ pc' = "drain" => pc \in {"match", "drain"}
          /\ pc \in {"match", "drain", "ret", "done"}
                => (rets' = rets /\ state' = state /\ pc' \notin {"start", "closure"})]_vars

\* f pulled the first of three Ok items, the drain the other two and the
\* end.
C30_Witness ==
    /\ Done /\ budget = 1 /\ Len(src) = 3 /\ AllOk(src)
    /\ trace = <<Outer(src[1]), Inner(src[1].val), Outer(src[2]), Outer(src[3])>>
    /\ pulls = 4


\* C31: wherever f stops pulling, the call classifies the source as the call
\* in which f drains the adapter does: the same Ok-or-Err, and the same Err.
C31_EarlyReturnSameClassification ==
    Done =>
        LET full == first_err_call(method, src, Len(src) + 1, fres, value)
        IN /\ result.tag = full.tag
           /\ result.tag = "Err" => result = full
           /\ (method # "first_err_or_try" \/ fres.tag = "Ok")
                 => (result.tag = "Err" <=> HasErr(src))

\* f stopped one item before the Err of the source and returned Ok.
C31_Witness ==
    /\ Done /\ method = "first_err_or_try" /\ fres.tag = "Ok"
    /\ budget = 1 /\ HasErr(src) /\ FirstErrIndex(src) = 3
    /\ output.tag = "Ok"
    /\ result = Err(FirstErrValue(src))

\* C33: while the adapter is Active every item pulled so far was an Ok, was
\* given to f, and the source has not answered None; so when f returns with
\* the adapter Active there is no Err in what f consumed, and the drain goes
\* on at the first item not yet pulled: nothing is skipped or read twice.
\* (The match moves the state out of the adapter; the drain is looked at as
\* long as it runs.)
C33_ActiveMeansOnlyOkPulled ==
    (state = Active /\ pc \in {"closure", "match", "drain"}) =>
        /\ pulls = pos
        /\ \A i \in 1..pos : src[i].tag = "Ok"
        /\ OuterItems(trace) = SubSeq(src, 1, pos)
        /\ pc \in {"closure", "match"}
              => (pos = Len(rets) /\ \A i \in 1..pos : rets[i] = Some(src[i].val))
        /\ pc = "drain"
              => (Len(rets) <= pos /\ \A i \in 1..Len(rets) : rets[i] = Some(src[i].val))

\* f consumed one item; the drain has pulled the second and stands before
\* the third.
C33_Witness ==
    /\ pc = "drain" /\ state = Active
    /\ Len(src) = 3 /\ src[3].tag = "Err"
    /\ Len(rets) = 1 /\ pos = 2
    /\ trace = <<Outer(src[1]), Inner(src[1].val), Outer(src[2])>>

\* C35: in first_err_or_try, when f returns an Err with the adapter still
\* Active, the driver scans the rest of the source, with its side effects,
\* up to the first Err of the source or the end, and only then returns: the
\* source's Err if there is one, else f's.
C35_TryDrainsBeforeReturningClosureErr ==
    (Done /\ method = "first_err_or_try" /\ fres.tag = "Err" /\ state = Active)
        => /\ pulls = StopPulls(src)
           /\ pulls > Len(rets)
           /\ OuterItems(trace) = ProducedItems(src)
           /\ result = IF HasErr(src) THEN Err(FirstErrValue(src)) ELSE fres

\* f pulled one of three Ok items and returned its Err; the drain pulled the
\* other two and the end.
C35_Witness ==
    /\ Done /\ method = "first_err_or_try" /\ fres.tag = "Err" /\ state = Active
    /\ budget = 1 /\ Len(src) = 3 /\ AllOk(src)
    /\ pulls = 4 /\ Len(trace) = 4
    /\ result = fres

\* C36: on an empty source f is invoked and is given no item, the source is
\* pulled exactly once in the whole call (by f's first next(), or by the
\* drain when f pulls nothing), and the result is Ok of f's output (for
\* first_err_or_try, f's own result).
C36_EmptySource ==
    (Done /\ Items(src) = <<>>)
        => /\ Yielded(rets) = <<>>
           /\ Len(rets) = budget
           /\ pulls = 1
           /\ state = (IF budget = 0 THEN Active ELSE Exhausted)
           /\ output = FOutput(method, <<>>, fres, value)
           /\ result = OkOfOutput

\* f asked the empty source twice and returned its own Err.
C36_Witness ==
    /\ Done /\ src = <<>> /\ budget = 2
    /\ method = "first_err_or_try" /\ fres.tag = "Err"
    /\ rets = <<None, None>> /\ pulls = 1
    /\ result = fres


\* C32: termination.  Every source here answers an Err or None after
\* finitely many pulls, and f returns; then the call returns, and it never
\* makes more pulls than it takes to reach that Err or None.
C32_CallTerminates ==
    /\ <>Done
    /\ [](pulls <= StopPulls(src))

\* The call returned after a drain over a whole source of three Ok items.
C32_Witness ==
    /\ Done /\ budget = 0 /\ Len(src) = 3 /\ AllOk(src)
    /\ state = Active /\ pulls = 4 /\ pos = 3
    /\ result.tag = "Ok"


\* ------------------------------------------- repeated calls on one source
\* The calls made on the source so far that have returned.
ReturnedCalls ==
    calls \o (IF Done THEN <<[method |-> method, result |-> result, upto |-> pos]>>
              ELSE <<>>)
\* The position of the k-th Err item of s.
KthErrIndex(s, k) ==
    CHOOSE i \in ErrIndexes(s) : Cardinality({j \in ErrIndexes(s) : j <= i}) = k

\* C34: with the source given by mutable reference, a call that finds an Err
\* leaves the source just past that Err and no further; the next call starts
\* at the item behind it and returns the next Err of the source, or no Err of
\* the source when none is left before its end.  On a fused source the k-th
\* call so returns the k-th Err.
C34_SuccessiveCallsSuccessiveFailures ==
    \A k \in 1..Len(ReturnedCalls) :
        LET c == ReturnedCalls[k]
            from == IF k = 1 THEN 0 ELSE ReturnedCalls[k - 1].upto
            rest == SubSeq(src, from + 1, Len(src))
        IN /\ HasErr(rest)
                => /\ c.result = Err(FirstErrValue(rest))
                   /\ c.upto = from + FirstErrIndex(rest)
           /\ ~HasErr(rest)
                => /\ c.result.tag = "Err"
                        => (c.method = "first_err_or_try" /\ c.result.val \in FErrs)
                   /\ c.upto = (IF from + Len(Items(rest)) + 1 <= Len(src)
                                THEN from + Len(Items(rest)) + 1 ELSE Len(src))
           /\ (Fused(src) /\ k <= Cardinality(ErrIndexes(src)))
                => (c.result = src[KthErrIndex(src, k)] /\ c.upto = KthErrIndex(src, k))
           /\ (Fused(src) /\ k > Cardinality(ErrIndexes(src)) /\ c.method # "first_err_or_try")
                => c.result.tag = "Ok"

\* The three calls of take_dyn on [Ok, Err a, Err b]: Err a, Err b, Ok.
C34_Witness ==
    /\ Done /\ Len(calls) = 2
    /\ Len(src) = 3 /\ src[1].tag = "Ok" /\ src[2].tag = "Err" /\ src[3].tag = "Err"
    /\ src[2].val # src[3].val
    /\ calls[1].method = "first_err_or_else" /\ calls[1].result = src[2]
    /\ calls[1].upto = 2
    /\ calls[2].method = "first_err_or" /\ calls[2].result = src[3]
    /\ method = "first_err_or_try" /\ fres.tag = "Ok" /\ result = Ok(0)

=============================================================================
